---- MODULE Spec2Model ----
(***************************************************************************)
(* The two hardware collection flows of grr/lib/flows/general/hardware.py  *)
(* (DumpFlashImage and DumpACPITable) as a state machine.                  *)
(*                                                                         *)
(* A state handler is an operator from the responses it is resumed with    *)
(* (and the flow state it reads) to the ordered list of the operations it  *)
(* performs: Log, SendReply, Write (an AFF4 object created and flushed),   *)
(* Call (CallClient / CallFlow / CallState), SetState and, last, Raise     *)
(* when an exception leaves the handler.  The flow runner, which is not    *)
(* part of hardware.py, applies that list to the instance.                 *)
(*                                                                         *)
(* A message (a log line, an exception text) is the sequence of the parts  *)
(* its format string joins, so that "the message contains the status" is   *)
(* membership of the status among the parts.                               *)
(***************************************************************************)
EXTENDS Integers, Sequences, FiniteSets, TLC

VARIABLES
  kind,      \* which flow class the instance runs: "flash" or "acpi"
  args,      \* the instance's arguments (self.args)
  status,    \* "new", "rejected", "running", "failed" or "done"
  error,     \* the message of the exception that failed the instance
  wfstate,   \* self.state: a function from the names set to their values
  calls,     \* every outbound call dispatched so far; a call's id is its index
  pending,   \* ids of the calls whose reply has not arrived yet
  log,       \* the instance's log stream (self.Log)
  replies,   \* the instance's reply stream (self.SendReply)
  store,     \* the durable writes made through aff4.FACTORY.Create
  events,    \* history: every reply arrival and every operation, in order
  duplicates \* the calls whose reply was delivered again, in order

vars == <<kind, args, status, error, wfstate, calls, pending, log, replies,
          store, events, duplicates>>

-----------------------------------------------------------------------------
(* Bounds and the small sets the inputs are drawn from.                    *)

MaxSigs == 2
MaxTables == 2
MaxDuplicates == 1

Signatures == {"FACP", "DSDT"}
Paths == {"", "/tmp/flash_a", "/tmp/flash_b"}
Statuses == {"device busy", "timeout"}
ClientLogs == {<<>>, <<<<"chipsec: done">>>>}

SigLists == UNION {[1..n -> Signatures] : n \in 0..MaxSigs}
TableLists == {[i \in 1..n |-> [table_blob |-> i]] : n \in 0..MaxTables}

Range(s) == {s[i] : i \in 1..Len(s)}
SeqMap(F(_), s) == [i \in 1..Len(s) |-> F(s[i])]

RECURSIVE Flatten(_)
Flatten(ss) == IF ss = <<>> THEN <<>> ELSE Head(ss) \o Flatten(Tail(ss))

-----------------------------------------------------------------------------
(* The operations a handler performs.                                      *)

Log(msg) == [op |-> "Log", msg |-> msg]
SendReply(item) == [op |-> "SendReply", item |-> item]
Write(path, type, value) ==
  [op |-> "Write", path |-> path, type |-> type, value |-> value]
Call(target, request, request_data, next_state) ==
  [op |-> "Call", target |-> target, request |-> request,
   request_data |-> request_data, next_state |-> next_state]
SetState(name, value) == [op |-> "SetState", name |-> name, value |-> value]
Raise(type, msg) == [op |-> "Raise", type |-> type, msg |-> msg]

NoRequestData == [k \in {} |-> <<>>]

(* responses.First(): the first payload item, or None when there is none.  *)
(* None is the empty sequence here and an item the one-element sequence.   *)
HasFirst(responses) == responses.items # <<>>
First(responses) == Head(responses.items)

(* Reading an attribute of None raises AttributeError.                     *)
NoneAttribute(name) ==
  Raise("AttributeError",
        <<"'NoneType' object has no attribute ", name>>)

(* for response in responses: if hasattr(response, "logs"): forward them.  *)
ForwardLogsIfAny(responses) ==
  Flatten(SeqMap(LAMBDA response:
                   IF "logs" \in DOMAIN response
                   THEN SeqMap(Log, response.logs) ELSE <<>>,
                 responses.items))

(* for response in responses: for log in response.logs: self.Log(log)      *)
ForwardLogs(responses) ==
  Flatten(SeqMap(LAMBDA response: SeqMap(Log, response.logs),
                 responses.items))

-----------------------------------------------------------------------------
(* DumpFlashImage                                                          *)


(* Start dispatching the hardware dump together with the component load.   *)
DumpFlashImage_Start_DumpsAtOnce(a) ==
  <<Call("LoadComponent",
         [name |-> "grr-chipsec-component", version |-> a.component_version],
         NoRequestData, "CollectDebugInfo"),
    Call("DumpFlashImage",
         [log_level |-> a.log_level, chunk_size |-> a.chunk_size,
          notify_syslog |-> a.notify_syslog],
         NoRequestData, "CollectImage")>>

DumpFlashImage_Start(a) ==
  <<Call("LoadComponent",
         [name |-> "grr-chipsec-component", version |-> a.component_version],
         NoRequestData, "CollectDebugInfo")>>

CollectDebugInfo(responses) ==
  <<Call("ArtifactCollectorFlow",
         [artifact_list |-> <<"LinuxHardwareInfo">>,
          store_results_in_aff4 |-> TRUE],
         NoRequestData, "DumpImage")>>

DumpImage(responses, a) ==
  <<SetState("hardware_info", responses.items),
    Call("DumpFlashImage",
         [log_level |-> a.log_level, chunk_size |-> a.chunk_size,
          notify_syslog |-> a.notify_syslog],
         NoRequestData, "CollectImage")>>


(* CollectImage without its check of responses.success.                    *)
CollectImage_IgnoresFailure(responses) ==
  ForwardLogsIfAny(responses) \o
  (IF ~HasFirst(responses)
   THEN <<NoneAttribute("path")>>
   ELSE IF First(responses).path = ""
   THEN <<Log(<<"No path returned. Skipping host.">>),
          Call("CallState", <<>>, NoRequestData, "End")>>
   ELSE LET image_path == First(responses).path IN
        <<Call("MultiGetFile", [pathspecs |-> <<image_path>>],
               [image_path |-> image_path], "DeleteTemporaryImage")>>)

(* CollectImage without its check for an empty path.                       *)
CollectImage_TransfersEmptyPath(responses) ==
  ForwardLogsIfAny(responses) \o
  (IF ~responses.success
   THEN <<Raise("FlowError",
                <<"Failed to dump the flash image: ", responses.status>>)>>
   ELSE IF ~HasFirst(responses)
   THEN <<NoneAttribute("path")>>
   ELSE LET image_path == First(responses).path IN
        <<Call("MultiGetFile", [pathspecs |-> <<image_path>>],
               [image_path |-> image_path], "DeleteTemporaryImage")>>)

CollectImage(responses) ==
  ForwardLogsIfAny(responses) \o
  (IF ~responses.success
   THEN <<Raise("FlowError",
                <<"Failed to dump the flash image: ", responses.status>>)>>
   ELSE IF ~HasFirst(responses)
   THEN <<NoneAttribute("path")>>
   ELSE IF First(responses).path = ""
   THEN <<Log(<<"No path returned. Skipping host.">>),
          Call("CallState", <<>>, NoRequestData, "End")>>
   ELSE LET image_path == First(responses).path IN
        <<Call("MultiGetFile", [pathspecs |-> <<image_path>>],
               [image_path |-> image_path], "DeleteTemporaryImage")>>)


(* DeleteTemporaryImage dispatching the cleanup call before it looks at    *)
(* the transfer's outcome.                                                 *)
DeleteTemporaryImage_CleansUpFirst(responses) ==
  <<Call("DeleteGRRTempFiles", responses.request_data["image_path"],
         NoRequestData, "TemporaryImageRemoved")>> \o
  (IF ~responses.success
   THEN <<Raise("FlowError",
                <<"Unable to collect the flash image: ", responses.status>>)>>
   ELSE IF ~HasFirst(responses)
   THEN <<NoneAttribute("aff4path")>>
   ELSE LET response == First(responses) IN
        <<SendReply(response),
          Write(<<"spiflash">>, "AFF4Symlink", <<response.aff4path>>)>>)


(* DeleteTemporaryImage naming a state that does not exist as the          *)
(* continuation of the cleanup call.                                       *)
DeleteTemporaryImage_WrongContinuation(responses) ==
  IF ~responses.success
  THEN <<Raise("FlowError",
               <<"Unable to collect the flash image: ", responses.status>>)>>
  ELSE IF ~HasFirst(responses)
  THEN <<NoneAttribute("aff4path")>>
  ELSE LET response == First(responses) IN
       <<SendReply(response),
         Write(<<"spiflash">>, "AFF4Symlink", <<response.aff4path>>),
         Call("DeleteGRRTempFiles", responses.request_data["image_path"],
              NoRequestData, "TemporaryImageRemovd")>>

DeleteTemporaryImage(responses) ==
  IF ~responses.success
  THEN <<Raise("FlowError",
               <<"Unable to collect the flash image: ", responses.status>>)>>
  ELSE IF ~HasFirst(responses)
  THEN <<NoneAttribute("aff4path")>>
  ELSE LET response == First(responses) IN
       <<SendReply(response),
         Write(<<"spiflash">>, "AFF4Symlink", <<response.aff4path>>),
         Call("DeleteGRRTempFiles", responses.request_data["image_path"],
              NoRequestData, "TemporaryImageRemoved")>>


(* TemporaryImageRemoved ignoring the outcome of the cleanup.              *)
TemporaryImageRemoved_IgnoresFailure(responses) == <<>>


(* TemporaryImageRemoved asking for the cleanup again when it failed.      *)
TemporaryImageRemoved_Retries(responses) ==
  IF ~responses.success
  THEN <<Call("DeleteGRRTempFiles", responses.request, NoRequestData,
              "TemporaryImageRemoved")>>
  ELSE <<>>

TemporaryImageRemoved(responses) ==
  IF ~responses.success
  THEN <<Raise("FlowError",
               <<"Unable to delete the temporary flash image: ",
                 responses.status>>)>>
  ELSE <<>>

DumpFlashImage_End(state) ==
  IF "image_path" \in DOMAIN state
  THEN <<Log(<<"Successfully wrote Flash image.">>)>>
  ELSE <<>>

-----------------------------------------------------------------------------
(* DumpACPITable                                                           *)


(* Validate accepting every argument.                                      *)
Validate_AcceptsEmpty(a) == <<>>

Validate(a) ==
  IF a.table_signature_list = <<>>
  THEN <<Raise("ValueError", <<"No ACPI table to dump.">>)>>
  ELSE <<>>

DumpACPITable_Start(a) ==
  <<Call("LoadComponent",
         [name |-> "grr-chipsec-component", version |-> a.component_version],
         NoRequestData, "StartCollection")>>

StartCollection(responses, a) ==
  SeqMap(LAMBDA table_signature:
           Call("DumpACPITable",
                [logging |-> a.logging, table_signature |-> table_signature],
                NoRequestData, "TableReceived"),
         a.table_signature_list)

TablePath(table_signature) ==
  <<"devices/chipsec/acpi/tables/", table_signature>>


(* TableReceived failing the flow on a failed reply instead of logging it. *)
TableReceived_Escalates(responses) ==
  LET table_signature == responses.request.table_signature IN
  ForwardLogs(responses) \o
  (IF ~responses.success
   THEN <<Raise("FlowError",
                <<"Error retrieving ACPI table with signature ",
                  table_signature>>)>>
   ELSE IF ~HasFirst(responses)
   THEN <<NoneAttribute("acpi_tables")>>
   ELSE LET response == First(responses) IN
        IF response.acpi_tables # <<>>
        THEN <<Log(<<"Retrieved ACPI table(s) with signature ",
                     table_signature>>),
               Write(TablePath(table_signature), "ACPITableDataCollection",
                     response.acpi_tables)>>
             \o SeqMap(SendReply, response.acpi_tables)
        ELSE <<>>)


(* TableReceived emitting only the first table of a reply.                 *)
TableReceived_RepliesFirstOnly(responses) ==
  LET table_signature == responses.request.table_signature IN
  ForwardLogs(responses) \o
  (IF ~responses.success
   THEN <<Log(<<"Error retrieving ACPI table with signature ",
                table_signature>>)>>
   ELSE IF ~HasFirst(responses)
   THEN <<NoneAttribute("acpi_tables")>>
   ELSE LET response == First(responses) IN
        IF response.acpi_tables # <<>>
        THEN <<Log(<<"Retrieved ACPI table(s) with signature ",
                     table_signature>>),
               Write(TablePath(table_signature), "ACPITableDataCollection",
                     response.acpi_tables),
               SendReply(Head(response.acpi_tables))>>
        ELSE <<>>)

TableReceived(responses) ==
  LET table_signature == responses.request.table_signature IN
  ForwardLogs(responses) \o
  (IF ~responses.success
   THEN <<Log(<<"Error retrieving ACPI table with signature ",
                table_signature>>)>>
   ELSE IF ~HasFirst(responses)
   THEN <<NoneAttribute("acpi_tables")>>
   ELSE LET response == First(responses) IN
        IF response.acpi_tables # <<>>
        THEN <<Log(<<"Retrieved ACPI table(s) with signature ",
                     table_signature>>),
               Write(TablePath(table_signature), "ACPITableDataCollection",
                     response.acpi_tables)>>
             \o SeqMap(SendReply, response.acpi_tables)
        ELSE <<>>)

(* DumpACPITable defines no End: the base class's End does nothing here.   *)
DumpACPITable_End(state) == <<>>

-----------------------------------------------------------------------------
(* The flow runner: argument validation, dispatch, resumption, abort.      *)

FlashArgs ==
  [component_version |-> "1.0", log_level |-> 0, chunk_size |-> 65536,
   notify_syslog |-> FALSE]
ACPIArgs ==
  {[component_version |-> "1.0", logging |-> FALSE,
    table_signature_list |-> l] : l \in SigLists}

OpsOf(ops, name) == SelectSeq(ops, LAMBDA o: o.op = name)
Raised(ops) == OpsOf(ops, "Raise") # <<>>

(* The replies a call's target may send back.                              *)
Failures == {[success |-> FALSE, status |-> s, items |-> <<>>] : s \in Statuses}
Success(items) == [success |-> TRUE, status |-> "ok", items |-> items]

ReplyChoices(call) ==
  CASE call.target = "LoadComponent" ->
         {Success(<<>>), [success |-> FALSE, status |-> "timeout",
                          items |-> <<>>]}
    [] call.target = "ArtifactCollectorFlow" ->
         {Success(<<>>), Success(<<[hardware |-> "LinuxHardwareInfo"]>>),
          [success |-> FALSE, status |-> "timeout", items |-> <<>>]}
    [] call.target = "DumpFlashImage" ->
         Failures \cup {Success(<<>>)} \cup
         {Success(<<[path |-> p, logs |-> l]>>) : p \in Paths, l \in ClientLogs}
    [] call.target = "MultiGetFile" ->
         Failures \cup {Success(<<>>)} \cup
         {Success(<<[aff4path |-> <<"fs/os", p>>]>>) : p \in Range(call.request.pathspecs)}
    [] call.target = "DeleteGRRTempFiles" ->
         Failures \cup {Success(<<[data |-> "Deleted"]>>)}
    [] call.target = "DumpACPITable" ->
         {[success |-> FALSE, status |-> "timeout", items |-> <<>>],
          [success |-> FALSE, status |-> "timeout",
           items |-> <<[acpi_tables |-> <<>>,
                        logs |-> <<<<"chipsec: failed">>>>]>>],
          Success(<<>>),
          Success(<<[acpi_tables |-> <<[table_blob |-> 1]>>,
                     logs |-> <<<<"chipsec: done">>>>]>>)} \cup
         {Success(<<[acpi_tables |-> t, logs |-> <<>>]>>) : t \in TableLists}
    [] OTHER -> {Success(<<>>)}

(* The responses object a handler is resumed with: the reply, with the     *)
(* request and the request_data of the call it answers.                    *)
Responses(id, reply) ==
  [success |-> reply.success, status |-> reply.status, items |-> reply.items,
   request |-> calls[id].request, request_data |-> calls[id].request_data]

NewCalls(ops) ==
  LET cs == OpsOf(ops, "Call") IN
  [i \in 1..Len(cs) |->
     [id |-> Len(calls) + i, target |-> cs[i].target,
      request |-> cs[i].request, request_data |-> cs[i].request_data,
      next_state |-> cs[i].next_state]]

RECURSIVE Assign(_, _)
Assign(state, sets) ==
  IF sets = <<>> THEN state
  ELSE Assign([k \in DOMAIN state \cup {Head(sets).name} |->
                 IF k = Head(sets).name THEN Head(sets).value ELSE state[k]],
              Tail(sets))

(* The effect of one handler invocation on the instance.                   *)
Effects(ops, done) ==
  /\ log' = log \o SeqMap(LAMBDA o: o.msg, OpsOf(ops, "Log"))
  /\ replies' = replies \o SeqMap(LAMBDA o: o.item, OpsOf(ops, "SendReply"))
  /\ store' = store \o SeqMap(LAMBDA o: [path |-> o.path, type |-> o.type,
                                         value |-> o.value],
                              OpsOf(ops, "Write"))
  /\ calls' = calls \o NewCalls(ops)
  /\ wfstate' = Assign(wfstate, OpsOf(ops, "SetState"))
  /\ status' = IF Raised(ops) THEN "failed"
               ELSE IF done THEN "done" ELSE "running"
  /\ error' = IF Raised(ops) THEN Head(OpsOf(ops, "Raise")).msg ELSE error

Init ==
  /\ kind \in {"flash", "acpi"}
  /\ args \in IF kind = "flash" THEN {FlashArgs} ELSE ACPIArgs
  /\ status = "new"
  /\ error = <<>>
  /\ wfstate = [k \in {} |-> <<>>]
  /\ calls = <<>>
  /\ pending = {}
  /\ log = <<>>
  /\ replies = <<>>
  /\ store = <<>>
  /\ events = <<>>
  /\ duplicates = <<>>

(* StartFlow: the arguments are validated, then the Start handler runs.    *)
StartFlow ==
  /\ status = "new"
  /\ LET check == IF kind = "acpi" THEN Validate(args) ELSE <<>> IN
     IF Raised(check)
     THEN /\ status' = "rejected"
          /\ error' = Head(OpsOf(check, "Raise")).msg
          /\ UNCHANGED <<wfstate, calls, pending, log, replies, store, events>>
     ELSE LET ops == IF kind = "flash" THEN DumpFlashImage_Start(args)
                     ELSE DumpACPITable_Start(args) IN
          /\ Effects(ops, FALSE)
          /\ pending' = {c.id : c \in Range(NewCalls(ops))}
          /\ events' = <<[op |-> "Resume", handler |-> "Start", id |-> 0]>>
                          \o ops
  /\ UNCHANGED <<kind, args, duplicates>>

(* A reply to call id arrives and the handler named by the call runs.      *)
Resume(id, handler, responses, ops) ==
  /\ status = "running"
  /\ Effects(ops, FALSE)
  /\ pending' = (pending \ {id}) \cup {c.id : c \in Range(NewCalls(ops))}
  /\ events' = events \o <<[op |-> "Resume", handler |-> handler, id |-> id,
                            responses |-> responses]>> \o ops
  /\ UNCHANGED <<kind, args, duplicates>>

Awaiting(handler) == {id \in pending : calls[id].next_state = handler}

(* LoadComponentOnClient: the state named as next_state runs once the      *)
(* component is loaded; a load that failed fails the flow instead.         *)
ComponentLoaded(responses, continuation) ==
  IF ~responses.success
  THEN <<Raise("FlowError",
               <<"Failed to load the component: ", responses.status>>)>>
  ELSE continuation
Continuation(responses, next_state) ==
  IF ~responses.success THEN "ComponentLoaded" ELSE next_state

OnCollectDebugInfo ==
  \E id \in Awaiting("CollectDebugInfo") :
    \E reply \in ReplyChoices(calls[id]) :
      LET responses == Responses(id, reply) IN
      Resume(id, Continuation(responses, "CollectDebugInfo"), responses,
             ComponentLoaded(responses, CollectDebugInfo(responses)))

OnDumpImage ==
  \E id \in Awaiting("DumpImage") :
    \E reply \in ReplyChoices(calls[id]) :
      LET responses == Responses(id, reply) IN
      Resume(id, "DumpImage", responses, DumpImage(responses, args))

OnCollectImage ==
  \E id \in Awaiting("CollectImage") :
    \E reply \in ReplyChoices(calls[id]) :
      LET responses == Responses(id, reply) IN
      Resume(id, "CollectImage", responses, CollectImage(responses))

OnDeleteTemporaryImage ==
  \E id \in Awaiting("DeleteTemporaryImage") :
    \E reply \in ReplyChoices(calls[id]) :
      LET responses == Responses(id, reply) IN
      Resume(id, "DeleteTemporaryImage", responses,
             DeleteTemporaryImage(responses))

OnTemporaryImageRemoved ==
  \E id \in Awaiting("TemporaryImageRemoved") :
    \E reply \in ReplyChoices(calls[id]) :
      LET responses == Responses(id, reply) IN
      Resume(id, "TemporaryImageRemoved", responses,
             TemporaryImageRemoved(responses))

OnStartCollection ==
  \E id \in Awaiting("StartCollection") :
    \E reply \in ReplyChoices(calls[id]) :
      LET responses == Responses(id, reply) IN
      Resume(id, Continuation(responses, "StartCollection"), responses,
             ComponentLoaded(responses, StartCollection(responses, args)))

OnTableReceived ==
  \E id \in Awaiting("TableReceived") :
    \E reply \in ReplyChoices(calls[id]) :
      LET responses == Responses(id, reply) IN
      Resume(id, "TableReceived", responses, TableReceived(responses))

EndOps == IF kind = "flash" THEN DumpFlashImage_End(wfstate)
          ELSE DumpACPITable_End(wfstate)

(* CallState(next_state="End"): the End handler runs as the next state.    *)
OnEnd ==
  \E id \in Awaiting("End") :
    /\ status = "running"
    /\ Effects(EndOps, TRUE)
    /\ pending' = pending \ {id}
    /\ events' = events \o <<[op |-> "Resume", handler |-> "End", id |-> id]>>
                        \o EndOps
    /\ UNCHANGED <<kind, args, duplicates>>

(* No call is outstanding any more: the runner runs End and the instance   *)
(* completes.                                                              *)
Complete ==
  /\ status = "running"
  /\ pending = {}
  /\ Effects(EndOps, TRUE)
  /\ events' = events \o <<[op |-> "Resume", handler |-> "End", id |-> 0]>>
                      \o EndOps
  /\ UNCHANGED <<kind, args, duplicates, pending>>

(* A reply for an instance that has failed is dropped.                     *)
DiscardReply ==
  \E id \in pending :
    \E reply \in ReplyChoices(calls[id]) :
      /\ status = "failed"
      /\ pending' = pending \ {id}
      /\ events' = events \o <<[op |-> "Discard", id |-> id,
                                responses |-> Responses(id, reply)]>>
      /\ UNCHANGED <<kind, args, duplicates, status, error, wfstate, calls,
                     log, replies, store>>

(* The calls whose reply has already been delivered.                      *)
Answered ==
  {id \in 1..Len(calls) : id \notin pending /\ calls[id].target # "CallState"}
FirstDelivery(id) ==
  CHOOSE e \in Range(events) : e.op \in {"Resume", "Discard"} /\ e.id = id

(* A repeated delivery that runs the handler again.                        *)
DuplicateReply_Reruns ==
  \E id \in Answered :
    LET responses == FirstDelivery(id).responses
        handler == calls[id].next_state
        ops == IF handler = "TableReceived" THEN TableReceived(responses)
               ELSE IF handler = "DeleteTemporaryImage"
               THEN DeleteTemporaryImage(responses)
               ELSE <<>>
    IN /\ Len(duplicates) < MaxDuplicates
       /\ duplicates' = Append(duplicates, id)
       /\ Effects(ops, status = "done")
       /\ pending' = pending \cup {c.id : c \in Range(NewCalls(ops))}
       /\ events' = events \o ops
       /\ UNCHANGED <<kind, args>>

(* The reply to a call that was already answered is delivered again: the   *)
(* runner recognises it and drops it.                                      *)
DuplicateReply ==
  \E id \in Answered :
    /\ Len(duplicates) < MaxDuplicates
    /\ duplicates' = Append(duplicates, id)
    /\ UNCHANGED <<kind, args, status, error, wfstate, calls, pending, log,
                   replies, store, events>>

Next ==
  \/ StartFlow
  \/ OnCollectDebugInfo
  \/ OnDumpImage
  \/ OnCollectImage
  \/ OnDeleteTemporaryImage
  \/ OnTemporaryImageRemoved
  \/ OnStartCollection
  \/ OnTableReceived
  \/ OnEnd
  \/ Complete
  \/ DiscardReply
  \/ DuplicateReply

Spec == Init /\ [][Next]_vars

(* Every dispatched call is eventually answered, once, and the runner     *)
(* does not stop while it has a state to run.                              *)
Delivery ==
  \/ StartFlow
  \/ OnCollectDebugInfo
  \/ OnDumpImage
  \/ OnCollectImage
  \/ OnDeleteTemporaryImage
  \/ OnTemporaryImageRemoved
  \/ OnStartCollection
  \/ OnTableReceived
  \/ OnEnd
  \/ Complete
  \/ DiscardReply

FairSpec == Init /\ [][Delivery]_vars /\ WF_vars(Delivery)

-----------------------------------------------------------------------------
(* Views of the history used by the properties.                            *)

IsResume(e, handler) == e.op = "Resume" /\ e.handler = handler
IsCallTo(e, target) == e.op = "Call" /\ e.target = target
IsArrival(e) == e.op = "Discard" \/ (e.op = "Resume" /\ e.id # 0)

Positions == 1..Len(events)
CallsTo(target) == SelectSeq(calls, LAMBDA c: c.target = target)
Resumes(handler) == SelectSeq(events, LAMBDA e: IsResume(e, handler))
SymlinkWrites == SelectSeq(store, LAMBDA w: w.type = "AFF4Symlink")
LogLines(msg) == SelectSeq(log, LAMBDA l: l = msg)

NoPathLine == <<"No path returned. Skipping host.">>
SuccessLine == <<"Successfully wrote Flash image.">>
ErrorLine(sig) == <<"Error retrieving ACPI table with signature ", sig>>

DumpFailed(e) == IsResume(e, "CollectImage") /\ ~e.responses.success
DumpGavePath(e) ==
  /\ IsResume(e, "CollectImage")
  /\ e.responses.success
  /\ HasFirst(e.responses)
  /\ First(e.responses).path # ""
DumpGaveEmptyPath(e) ==
  /\ IsResume(e, "CollectImage")
  /\ e.responses.success
  /\ HasFirst(e.responses)
  /\ First(e.responses).path = ""
TransferSucceeded(e) ==
  IsResume(e, "DeleteTemporaryImage") /\ e.responses.success
TransferFailed(e) ==
  IsResume(e, "DeleteTemporaryImage") /\ ~e.responses.success
CleanupFailed(e) ==
  IsResume(e, "TemporaryImageRemoved") /\ ~e.responses.success
CleanupSucceeded(e) ==
  IsResume(e, "TemporaryImageRemoved") /\ e.responses.success

Terminal == status \in {"done", "failed"} /\ pending = {}

-----------------------------------------------------------------------------
(* C1: when the reply to the hardware dump (handled by CollectImage) has   *)
(* success=false, the instance is failed, the abort message contains the   *)
(* reply's status text, and no transfer (MultiGetFile) call has been       *)
(* dispatched, in that state and in every later one.                       *)
C1_DumpFailureAborts ==
  \A i \in Positions :
    DumpFailed(events[i]) =>
      /\ status = "failed"
      /\ events[i].responses.status \in Range(error)
      /\ CallsTo("MultiGetFile") = <<>>

C1_Witness ==
  \E i \in Positions :
    /\ DumpFailed(events[i])
    /\ events[i].responses.status = "device busy"
    /\ "device busy" \in Range(error)

(* C2 (as stated): in every finished execution in which the hardware dump  *)
(* succeeded with a non-empty path, the call deleting the remote temporary *)
(* file has been dispatched, also when the transfer replied success=false. *)
C2_CleanupAlwaysDispatched ==
  (Terminal /\ \E i \in Positions : DumpGavePath(events[i]))
    => CallsTo("DeleteGRRTempFiles") # <<>>

(* C3: the cleanup call is dispatched only after a transfer reply with     *)
(* success=true has been received, and the path it carries is the path of  *)
(* the hardware-dump reply, as echoed in the transfer call's request_data. *)
C3_CleanupAfterTransferWithDumpPath ==
  \A k \in Positions :
    IsCallTo(events[k], "DeleteGRRTempFiles") =>
      \E i, j \in Positions :
        /\ i < j /\ j < k
        /\ DumpGavePath(events[i])
        /\ TransferSucceeded(events[j])
        /\ events[j].responses.request_data["image_path"]
             = First(events[i].responses).path
        /\ events[k].request = First(events[i].responses).path

C3_Witness ==
  \E k \in Positions :
    /\ IsCallTo(events[k], "DeleteGRRTempFiles")
    /\ events[k].request = "/tmp/flash_b"

(* C4 (as stated): the symbolic pointer is updated exactly once when the   *)
(* transfer has succeeded and zero times otherwise, and the update comes   *)
(* after the successful transfer reply and before the cleanup call.        *)
C4_PointerUpdatedOnceOnTransferSuccess ==
  /\ Len(SymlinkWrites) =
       IF \E j \in Positions : TransferSucceeded(events[j]) THEN 1 ELSE 0
  /\ \A k \in Positions :
       (events[k].op = "Write" /\ events[k].type = "AFF4Symlink") =>
         /\ \E j \in 1..(k - 1) : TransferSucceeded(events[j])
         /\ \A c \in 1..(k - 1) : ~IsCallTo(events[c], "DeleteGRRTempFiles")
  /\ \A c \in Positions :
       IsCallTo(events[c], "DeleteGRRTempFiles") =>
         \E k \in 1..(c - 1) :
           events[k].op = "Write" /\ events[k].type = "AFF4Symlink"

(* C5 (as stated): after a hardware-dump reply with success=true and an    *)
(* empty path the instance does not fail, goes to End, has emitted exactly *)
(* one log line, and has issued no transfer and no cleanup call.           *)
C5_EmptyPathOneLogLine ==
  \A i \in Positions :
    DumpGaveEmptyPath(events[i]) =>
      /\ status \in {"running", "done"}
      /\ Len(log) = 1
      /\ CallsTo("MultiGetFile") = <<>>
      /\ CallsTo("DeleteGRRTempFiles") = <<>>

(* C5 (amended): after a hardware-dump reply with success=true and an      *)
(* empty path the instance does not fail and goes to End; its log holds    *)
(* the log lines forwarded from the reply followed by exactly one line of  *)
(* its own ("No path returned. Skipping host."); the only call issued      *)
(* after the dump is the transition to End: no transfer, no cleanup.       *)
C5_EmptyPathCompletes ==
  \A i \in Positions :
    DumpGaveEmptyPath(events[i]) =>
      /\ status = "done" \/ (status = "running" /\ Awaiting("End") # {})
      /\ log = First(events[i].responses).logs \o <<NoPathLine>>
      /\ CallsTo("MultiGetFile") = <<>>
      /\ CallsTo("DeleteGRRTempFiles") = <<>>
      /\ Len(calls) = events[i].id + 1
      /\ calls[Len(calls)].target = "CallState"
      /\ calls[Len(calls)].next_state = "End"

C5_Witness ==
  /\ status = "done"
  /\ Len(log) = 2
  /\ \E i \in Positions : DumpGaveEmptyPath(events[i])

(* C6 (as stated): when an instance has reached End after a successful     *)
(* dump, transfer and cleanup, the log holds End's final success line.     *)
C6_EndLogsSuccess ==
  (status = "done" /\ \E i \in Positions : CleanupSucceeded(events[i]))
    => SuccessLine \in Range(log)

(* C7: a cleanup reply with success=false fails the instance with a        *)
(* message carrying the reply's status, and the artifact emitted to the    *)
(* reply stream and the pointer update made before the cleanup call are    *)
(* still in place: the reply stream holds the transferred artifact and the *)
(* pointer targets it.                                                     *)
C7_CleanupFailureAbortsKeepsArtifact ==
  \A i \in Positions :
    CleanupFailed(events[i]) =>
      /\ status = "failed"
      /\ events[i].responses.status \in Range(error)
      /\ \E j \in 1..(i - 1) :
           /\ TransferSucceeded(events[j])
           /\ replies = <<First(events[j].responses)>>
           /\ store = <<[path |-> <<"spiflash">>, type |-> "AFF4Symlink",
                         value |-> <<First(events[j].responses).aff4path>>]>>

C7_Witness ==
  /\ status = "failed"
  /\ Len(replies) = 1
  /\ Len(store) = 1
  /\ \E i \in Positions : CleanupFailed(events[i])

(* C8: an ACPI instance started with an empty table_signature_list fails   *)
(* validation: it never runs, no call (not even the component load) is     *)
(* dispatched, and no log line, reply or durable write is produced.        *)
C8_EmptySignatureListRejected ==
  (kind = "acpi" /\ args.table_signature_list = <<>>) =>
    /\ status \in {"new", "rejected"}
    /\ calls = <<>>
    /\ pending = {}
    /\ log = <<>>
    /\ replies = <<>>
    /\ store = <<>>
    /\ events = <<>>
    /\ wfstate = [k \in {} |-> <<>>]

C8_Witness ==
  /\ kind = "acpi"
  /\ args.table_signature_list = <<>>
  /\ status = "rejected"
  /\ error = <<"No ACPI table to dump.">>

(* C9 (as stated): once StartCollection has run for a signature list of    *)
(* length N, exactly N fetch calls have been dispatched, the i-th carrying *)
(* the i-th signature, and when every reply has arrived TableReceived has  *)
(* been invoked exactly N times, once for each fetch call.                 *)
C9_FanOutInvokesEachOnce ==
  (Resumes("StartCollection") # <<>>) =>
    LET sigs == args.table_signature_list
        fetches == CallsTo("DumpACPITable")
        invoked == Resumes("TableReceived")
    IN /\ Len(fetches) = Len(sigs)
       /\ \A n \in 1..Len(sigs) :
            fetches[n].request.table_signature = sigs[n]
       /\ \A m, n \in 1..Len(invoked) :
            invoked[m].id = invoked[n].id => m = n
       /\ Len(invoked) <= Len(sigs)
       /\ (pending = {}) => Len(invoked) = Len(sigs)

(* C10: for two requested signatures where the reply for one failed and    *)
(* the reply for the other succeeded with one table, once both replies     *)
(* have arrived (in either order) the log holds one failure line, for the  *)
(* failed signature, the store holds one write, under the succeeded        *)
(* signature's key, and one reply item was emitted.                        *)
FetchArrivals ==
  SelectSeq(events, LAMBDA e:
    IsArrival(e) /\ calls[e.id].target = "DumpACPITable")
ArrivedFailure(e, sig) ==
  /\ e.responses.request.table_signature = sig
  /\ ~e.responses.success
ArrivedOneTable(e, sig) ==
  /\ e.responses.request.table_signature = sig
  /\ e.responses.success
  /\ HasFirst(e.responses)
  /\ Len(First(e.responses).acpi_tables) = 1
PartialFailure(bad, good, m, n) ==
  /\ kind = "acpi"
  /\ Len(args.table_signature_list) = 2
  /\ Len(FetchArrivals) = 2
  /\ ArrivedFailure(FetchArrivals[m], bad)
  /\ ArrivedOneTable(FetchArrivals[n], good)

C10_PartialFailureOrderIndependent ==
  \A bad, good \in Signatures : \A m, n \in {1, 2} :
    (bad # good /\ m # n /\ PartialFailure(bad, good, m, n)) =>
      /\ status \in {"running", "done"}
      /\ Len(LogLines(ErrorLine(bad))) = 1
      /\ LogLines(ErrorLine(good)) = <<>>
      /\ store = <<[path |-> TablePath(good),
                    type |-> "ACPITableDataCollection",
                    value |-> First(FetchArrivals[n].responses).acpi_tables]>>
      /\ replies = First(FetchArrivals[n].responses).acpi_tables

C10_Witness ==
  /\ PartialFailure("FACP", "DSDT", 2, 1)
  /\ args.table_signature_list = <<"FACP", "DSDT">>
  /\ Len(replies) = 1
  /\ status = "done"

-----------------------------------------------------------------------------
(* Steps seen through the history: the arrival a step appends.             *)

Arrives(handler) ==
  /\ Len(events') > Len(events)
  /\ IsResume(events'[Len(events) + 1], handler)
Arrived == events'[Len(events) + 1]
Forwarded(responses) == SeqMap(LAMBDA o: o.msg, ForwardLogs(responses))
RetrievedLine(sig) == <<"Retrieved ACPI table(s) with signature ", sig>>

(* C11: a failed fetch reply makes TableReceived log one line naming the   *)
(* signature of the originating request and nothing else: the instance     *)
(* stays running, nothing is written or emitted, no call is dispatched,    *)
(* and what was written, logged and emitted for other signatures stays.    *)
C11_FailedFetchOnlyLogs ==
  [][(Arrives("TableReceived") /\ ~Arrived.responses.success) =>
       LET sig == calls[Arrived.id].request.table_signature IN
       /\ log' = log \o Forwarded(Arrived.responses) \o <<ErrorLine(sig)>>
       /\ status' = "running"
       /\ error' = error
       /\ store' = store
       /\ replies' = replies
       /\ calls' = calls
       /\ wfstate' = wfstate
       /\ pending' = pending \ {Arrived.id}]_vars

C11_Witness ==
  /\ kind = "acpi"
  /\ status = "done"
  /\ store # <<>>
  /\ \E i \in Positions :
       IsResume(events[i], "TableReceived") /\ ~events[i].responses.success

(* C12: a successful fetch reply for signature s whose table payload is    *)
(* non-empty is written once, under the key of s, and one reply is emitted *)
(* per table entry in payload order; with an empty table payload nothing   *)
(* is written or emitted and the instance does not fail.                   *)
C12_TablesStoredUnderOwnKey ==
  [][(/\ Arrives("TableReceived")
      /\ Arrived.responses.success
      /\ HasFirst(Arrived.responses)) =>
       LET sig == calls[Arrived.id].request.table_signature
           tables == First(Arrived.responses).acpi_tables
       IN /\ status' = "running"
          /\ error' = error
          /\ calls' = calls
          /\ IF tables # <<>>
             THEN /\ store' = store \o
                       <<[path |-> TablePath(sig),
                          type |-> "ACPITableDataCollection",
                          value |-> tables]>>
                  /\ replies' = replies \o tables
                  /\ log' = log \o Forwarded(Arrived.responses)
                                \o <<RetrievedLine(sig)>>
             ELSE /\ store' = store
                  /\ replies' = replies
                  /\ log' = log \o Forwarded(Arrived.responses)]_vars

C12_Witness ==
  /\ kind = "acpi"
  /\ status = "done"
  /\ Len(replies) = 2
  /\ Len(store) = 1
  /\ \E i \in Positions :
       /\ IsResume(events[i], "TableReceived")
       /\ events[i].responses.success
       /\ HasFirst(events[i].responses)
       /\ First(events[i].responses).acpi_tables = <<>>

(* C13: a reply delivered a second time for the same call adds nothing:    *)
(* no emitted reply, durable write, pointer update, outbound call, log     *)
(* line or state change beyond those of the single delivery.               *)
C13_DuplicateDeliveryNoEffect ==
  [][duplicates' # duplicates =>
       /\ replies' = replies
       /\ store' = store
       /\ calls' = calls
       /\ pending' = pending
       /\ log' = log
       /\ wfstate' = wfstate
       /\ status' = status
       /\ error' = error]_vars

C13_Witness ==
  /\ duplicates # <<>>
  /\ calls[duplicates[1]].next_state = "TableReceived"
  /\ \E i \in Positions :
       /\ IsResume(events[i], "TableReceived")
       /\ events[i].id = duplicates[1]
       /\ events[i].responses.success
       /\ HasFirst(events[i].responses)
       /\ Len(First(events[i].responses).acpi_tables) = 2
  /\ Len(replies) = 2
  /\ Len(store) = 1

(* C14: a failed dump, transfer or cleanup reply fails the instance, and   *)
(* a failed instance stays failed: no call is dispatched, no handler is    *)
(* resumed, and a reply that arrives afterwards is dropped without         *)
(* changing the log, the reply stream, the durable store or self.state.    *)
FatalHandlers == {"CollectImage", "DeleteTemporaryImage", "TemporaryImageRemoved"}
C14_FailedStaysFailed ==
  [][/\ (\E h \in FatalHandlers :
           Arrives(h) /\ ~Arrived.responses.success) => status' = "failed"
     /\ status = "failed" =>
          /\ status' = "failed"
          /\ error' = error
          /\ calls' = calls
          /\ log' = log
          /\ replies' = replies
          /\ store' = store
          /\ wfstate' = wfstate
          /\ pending' \subseteq pending
          /\ \A i \in (Len(events) + 1)..Len(events') :
               events'[i].op = "Discard"]_vars

C14_Witness ==
  /\ status = "failed"
  /\ duplicates # <<>>
  /\ \E i \in Positions :
       CleanupFailed(events[i]) /\ events[i].id = duplicates[1]

(* C15: the hardware-dump call and every ACPI table fetch call are         *)
(* dispatched only after the reply to the component-load call issued by    *)
(* Start has arrived with success=true.                                    *)
NeedsComponent(e) ==
  IsCallTo(e, "DumpFlashImage") \/ IsCallTo(e, "DumpACPITable")
LoadCompleted(e) ==
  /\ e.op = "Resume"
  /\ e.id # 0
  /\ calls[e.id].target = "LoadComponent"
  /\ e.responses.success
C15_ComponentLoadedFirst ==
  \A k \in Positions :
    NeedsComponent(events[k]) =>
      \E j \in 1..(k - 1) : LoadCompleted(events[j])

C15_Witness ==
  /\ \E k \in Positions : IsCallTo(events[k], "DumpFlashImage")
  /\ \E j \in Positions : LoadCompleted(events[j])

(* C16 (as stated): every reply with success=false that a handler is       *)
(* resumed with makes that invocation log a line or raise an error.        *)
LogsOrRaises(i) ==
  \E k \in (i + 1)..Len(events) :
    /\ events[k].op \in {"Log", "Raise"}
    /\ \A m \in (i + 1)..k : events[m].op \notin {"Resume", "Discard"}
C16_NoSilentFailure ==
  \A i \in Positions :
    (/\ events[i].op = "Resume"
     /\ events[i].id # 0
     /\ events[i].handler # "End"
     /\ ~events[i].responses.success) => LogsOrRaises(i)

(* C17: a failed transfer reply fails the instance with a message that     *)
(* carries the reply's status and changes nothing else: nothing is         *)
(* emitted, the pointer is not written, self.state is untouched and no     *)
(* call is dispatched.                                                     *)
C17_TransferFailureOnlyAborts ==
  [][(Arrives("DeleteTemporaryImage") /\ ~Arrived.responses.success) =>
       /\ status' = "failed"
       /\ Arrived.responses.status \in Range(error')
       /\ replies' = replies
       /\ store' = store
       /\ wfstate' = wfstate
       /\ calls' = calls
       /\ log' = log]_vars

C17_Witness ==
  /\ status = "failed"
  /\ replies = <<>>
  /\ store = <<>>
  /\ "hardware_info" \in DOMAIN wfstate
  /\ \E i \in Positions :
       TransferFailed(events[i]) /\ events[i].responses.status \in Range(error)

(* C18 (as stated): a reply with success=true and zero payload items does  *)
(* not fail the instance, neither in CollectImage nor in TableReceived.    *)
C18_EmptySuccessIsBenign ==
  \A i \in Positions :
    (/\ IsResume(events[i], "CollectImage")
          \/ IsResume(events[i], "TableReceived")
     /\ events[i].responses.success
     /\ ~HasFirst(events[i].responses)) => status # "failed"

(* C19: when every dispatched call is answered, the instance ends up       *)
(* completed with no call outstanding, or failed (or was rejected at       *)
(* start); and no state is entered twice: a flash instance dispatches to   *)
(* each continuation at most once and an ACPI instance with N signatures   *)
(* dispatches the load and N fetches and resumes TableReceived at most N   *)
(* times.                                                                  *)
Finished ==
  \/ status = "rejected"
  \/ status = "failed"
  \/ status = "done" /\ pending = {}
NoReturn ==
  /\ kind = "flash" =>
       \A m, n \in 1..Len(calls) :
         calls[m].next_state = calls[n].next_state => m = n
  /\ kind = "acpi" =>
       /\ Len(calls) <= 1 + Len(args.table_signature_list)
       /\ Len(Resumes("TableReceived")) <= Len(args.table_signature_list)
       /\ Len(Resumes("StartCollection")) <= 1
C19_Terminates == <>Finished /\ []NoReturn

C19_Witness ==
  /\ kind = "acpi"
  /\ status = "done"
  /\ pending = {}
  /\ Len(args.table_signature_list) = 2
  /\ Len(Resumes("TableReceived")) = 2

(* C20: a flash instance has at most one outbound call awaiting a reply,   *)
(* a handler invocation dispatches at most one call, and no target is      *)
(* called a second time (no fan-out, no retry after a failed reply).       *)
C20_OneCallAtATime ==
  kind = "flash" =>
    /\ Cardinality(pending) <= 1
    /\ \A a, b \in Positions :
         (a < b /\ events[a].op = "Call" /\ events[b].op = "Call") =>
           \E m \in (a + 1)..(b - 1) : events[m].op = "Resume"
    /\ \A m, n \in 1..Len(calls) :
         calls[m].target = calls[n].target => m = n

C20_Witness ==
  /\ kind = "flash"
  /\ status = "failed"
  /\ Len(calls) = 5
  /\ \E i \in Positions : CleanupFailed(events[i])

====
